---- MODULE Spec2Model ----
(***************************************************************************)
(* A model of ptc_xboard.py, the XBoard/UCI front end of PyTuroChamp: the  *)
(* read-dispatch loop of the main thread, the search controller            *)
(* (start_search, _think_loop, stop_search_and_output) and the board       *)
(* holder.  The chess rules library and the engine modules are outside the *)
(* file; they appear here as a small rule set (LegalMoves) and as a        *)
(* nondeterministic getmove.                                               *)
(***************************************************************************)
EXTENDS Integers, Sequences, FiniteSets, TLC

\* ------------------------------------------------------------------ bounds
\* Input lines read by the main loop in one run.
MaxLines == 3
\* Engine calls made by background search threads in one run.
MaxCalls == 2
\* Background threads that exist at the same time.
MaxThreads == 2

\* --------------------------------------------------------- program constants
\* _think_loop: max_d when no depth was parsed.
DepthCeiling == 64

\* Command-line tokens that select the engine (sys.argv[-1]).
Argv == {"newt", "ptc"}

\* nm, the engine name chosen by the if/elif chain on sys.argv[-1].
EngineName(a) ==
    IF a = "newt" THEN "Newt"
    ELSE IF a = "ptc" THEN "PyTuroChamp"
    ELSE "PyTuroChamp Multi-Core"

\* -------------------------------------------------------------- chess rules
\* The rules library as far as the front end uses it: a board is the position
\* it was set up from and the moves pushed since; push_uci raises on a move
\* that is not legal.  The rule set is a three-move fragment: the side to move
\* alternates, and a piece that has left its square cannot leave it again.
WhiteMoves == {"e2e4", "d2d4"}
BlackMoves == {"e7e5"}
AllMoves == WhiteMoves \cup BlackMoves

\* d = '' (module level, before any board exists)
NoBoard == [fen |-> <<>>, hist |-> <<>>]

\* c.Board()
StartBoard == [fen |-> <<"startpos">>, hist |-> <<>>]

\* A second fragment, for boards set up from a position with a white pawn on
\* e7 and the black king on h8: the pawn promotes, the king steps aside.
PromotionMoves == {"e7e8q", "e7e8n"}
KingMoves == {"h8h7"}

\* A move in UCI notation as its characters.
Chars(m) ==
    CASE m = "e2e4" -> <<"e", "2", "e", "4">>
      [] m = "d2d4" -> <<"d", "2", "d", "4">>
      [] m = "e7e5" -> <<"e", "7", "e", "5">>
      [] m = "e7e8q" -> <<"e", "7", "e", "8", "q">>
      [] m = "e7e8n" -> <<"e", "7", "e", "8", "n">>
      [] m = "h8h7" -> <<"h", "8", "h", "7">>

FromSquare(m) == SubSeq(Chars(m), 1, 2)

\* FEN text as the front end handles it: the first four fields (placement,
\* side, castling, en passant) and the two counters, which a Shredder FEN
\* leaves out.  Each text the rules library can parse is listed with the
\* position it describes, as the root position and the moves made from it;
\* canonical marks the text Board.fen() prints for that position (the en
\* passant square only when a capture is possible, so never in this
\* fragment).
Fen(head, counters, root, moved, canonical) ==
    [text |-> <<head, counters>>, root |-> root, moved |-> moved,
     canonical |-> canonical]

StartHead == "rnbqkbnr/pppppppp/8/8/8/8/PPPPPPPP/RNBQKBNR w KQkq -"
AfterE4Head == "rnbqkbnr/pppppppp/8/8/4P3/8/PPPP1PPP/RNBQKBNR b KQkq -"
AfterE4EpHead == "rnbqkbnr/pppppppp/8/8/4P3/8/PPPP1PPP/RNBQKBNR b KQkq e3"
PromotionHead == "7k/4P3/8/8/8/8/8/4K3 w - -"
\* A placement of seven ranks.
BadHead == "rnbqkbnr/pppppppp/8/8/8/8/PPPPPPPP w KQkq -"

KnownFens == {
    Fen(StartHead, "0 1", "start", {}, TRUE),
    Fen(AfterE4Head, "0 1", "start", {"e2e4"}, TRUE),
    Fen(AfterE4EpHead, "0 1", "start", {"e2e4"}, FALSE),
    Fen("rnbqkbnr/pppppppp/8/8/3P4/8/PPP1PPPP/RNBQKBNR b KQkq -", "0 1",
        "start", {"d2d4"}, TRUE),
    Fen("rnbqkbnr/pppp1ppp/8/4p3/4P3/8/PPPP1PPP/RNBQKBNR w KQkq -", "0 2",
        "start", {"e2e4", "e7e5"}, TRUE),
    Fen("rnbqkbnr/pppp1ppp/8/4p3/3P4/8/PPP1PPPP/RNBQKBNR w KQkq -", "0 2",
        "start", {"d2d4", "e7e5"}, TRUE),
    Fen("rnbqkbnr/pppp1ppp/8/4p3/3PP3/8/PPP2PPP/RNBQKBNR b KQkq -", "0 2",
        "start", {"e2e4", "d2d4", "e7e5"}, TRUE),
    Fen(PromotionHead, "0 1", "promotion", {}, TRUE),
    Fen("4Q2k/8/8/8/8/8/8/4K3 b - -", "0 1", "promotion", {"e7e8q"}, TRUE),
    Fen("4N2k/8/8/8/8/8/8/4K3 b - -", "0 1", "promotion", {"e7e8n"}, TRUE),
    Fen("4Q3/7k/8/8/8/8/8/4K3 w - -", "1 2",
        "promotion", {"e7e8q", "h8h7"}, TRUE),
    Fen("4N3/7k/8/8/8/8/8/4K3 w - -", "1 2",
        "promotion", {"e7e8n", "h8h7"}, TRUE) }

\* c.Board(fen) raises on any other text.
WellFormed(text) == \E e \in KnownFens : e.text = text

\* c.Board(fen) for a text it parses: no move stack.
BoardOfFen(text) == [fen |-> text, hist |-> <<>>]

\* The position of a board: where it was set up and the moves made since.
Position(b) ==
    LET from == IF b.fen = StartBoard.fen
                THEN [root |-> "start", moved |-> {}]
                ELSE CHOOSE e \in KnownFens : e.text = b.fen
    IN  [root |-> from.root,
         moved |-> from.moved \cup {b.hist[i] : i \in 1..Len(b.hist)}]

\* d.fen(): the canonical text of the board's position
BoardFen(b) ==
    LET p == Position(b)
    IN  (CHOOSE e \in KnownFens :
            e.canonical /\ e.root = p.root /\ e.moved = p.moved).text

LegalMoves(b) ==
    IF b = NoBoard THEN {}
    ELSE LET p == Position(b)
             white == Cardinality(p.moved) % 2 = 0
             side == IF p.root = "start"
                     THEN IF white THEN WhiteMoves ELSE BlackMoves
                     ELSE IF white THEN PromotionMoves ELSE KingMoves
         IN  {m \in side : \A x \in p.moved : FromSquare(x) # FromSquare(m)}

\* d.push_uci(m) on a legal move
Push(b, m) == [b EXCEPT !.hist = Append(@, m)]

\* last_result = None, r_res falsy
NoResult == ""

\* p.getmove(d, silent=True): a legal move of the board, or no result.
GetMoveResults(b) == LegalMoves(b) \cup {NoResult}

\* ------------------------------------------------------------- input lines
\* A line of standard input, by the branch of the dispatch chain it selects
\* and the tokens that branch reads: the moves after "position startpos
\* moves", the number after "depth" (-1 = no depth token), the time-control
\* token of a go line, the text of a move token.
Line(kind, moves, depth, tc, tok) ==
    [kind |-> kind, moves |-> moves, depth |-> depth, tc |-> tc, tok |-> tok]

Plain(kind) == Line(kind, <<>>, -1, "none", "")

\* l = ''
NoLine == Plain("")

TimeControls == {"none", "movetime", "wtime", "btime"}

GoLines == {Line("go", <<>>, dp, tc, "") : dp \in {-1, 1}, tc \in TimeControls}

\* Move lists after "position startpos moves": none, a legal opening move, a
\* legal pair, and a list whose first move is illegal from the start.
PositionLines == {Line("position startpos moves", mm, -1, "none", "") :
                    mm \in {<<>>, <<"e2e4">>, <<"e2e4", "e7e5">>, <<"e7e5">>}}

MoveLines == {Line("move", <<>>, -1, "none", m) : m \in AllMoves}

\* ------------------------------------------------------------------- state
VARIABLES
    nm,             \* engine name, fixed at start-up
    is_uci,         \* protocol mode
    d,              \* the board
    search_thread,  \* thread slot held by the main thread, 0 = None
    stop_flag,
    last_result,    \* first move of the stored result, NoResult = None
    MAXPLIES,       \* p.MAXPLIES, 0 = the engine's default
    threads,        \* background threads by slot
    mainpc,         \* main thread: "read", "join", "exited", "crashed"
    out,            \* lines printed by print2
    stdin,          \* standard input: open to any line, or a script and the place in it
    l,              \* the input line being handled
    nlines,         \* input lines read
    ncalls,         \* engine calls made by background threads
    go_answers,     \* terminating lines that answer the latest go, -1 = no go yet
    quiet           \* during a cancellation: no search was running when it began

vars == <<nm, is_uci, d, search_thread, stop_flag, last_result, MAXPLIES,
          threads, mainpc, out, stdin, l, nlines, ncalls, go_answers, quiet>>

Slots == 1..MaxThreads

\* A slot with no thread in it.
FreeThread == [pc |-> "free", max_d |-> 0, dd |-> 0, cands |-> {},
               same |-> FALSE]

\* A thread that has returned or died keeps only how it ended.
Ended(how) == [FreeThread EXCEPT !.pc = how]

Alive(t) == t.pc \in {"init", "loop", "call"}

Running == mainpc \in {"read", "join"}

\* No background thread is running and the main thread holds none.
NoSearch == search_thread = 0 /\ \A s \in Slots : ~Alive(threads[s])

\* Standard input on which any line may arrive.
Interactive == [open |-> TRUE, script |-> <<>>, pos |-> 0]

\* Standard input that delivers the lines of script and then nothing; pos
\* lines of it have been read.
Scripted(script) == [open |-> FALSE, script |-> script, pos |-> 0]

\* The module-level assignments before the main loop.
Started ==
    /\ nm \in {EngineName(a) : a \in Argv}
    /\ is_uci = TRUE
    /\ d = NoBoard
    /\ search_thread = 0
    /\ stop_flag = FALSE
    /\ last_result = NoResult
    /\ MAXPLIES = 0
    /\ threads = [s \in Slots |-> FreeThread]
    /\ mainpc = "read"
    /\ out = <<>>
    /\ l = NoLine
    /\ nlines = 0
    /\ ncalls = 0
    /\ go_answers = -1
    /\ quiet = FALSE

Init == Started /\ stdin = Interactive

\* ----------------------------------------------------------------- helpers
\* print2(x), for each x of xs in turn
Emit(xs) == out' = out \o xs

\* A handler that prints nothing.
Silent == out' = out

\* A terminating line that is always written the UCI way.
MoveLineAlwaysUci(uci, m) == <<"bestmove", m>>

\* "bestmove %s" / "move %s"
MoveLine(uci, m) == <<IF uci THEN "bestmove" ELSE "move", m>>

IsTerminating(x) == Len(x) = 2 /\ x[1] \in {"bestmove", "move"}

\* if not d: newgame()
EnsureBoard(b) == IF b = NoBoard THEN StartBoard ELSE b

\* A go branch that starts the search without creating a missing board.
GoBoardNotEnsured(b) == b

\* The go branch's own "if not d: newgame()".
GoBoard(b) == EnsureBoard(b)

\* A move() that prints the move without pushing it.
MoveBoardNotPushed(b, rm) == b

\* move(r): d.push_uci(rm), for a move the board allows
MoveBoard(b, rm) == Push(b, rm)

\* The main thread bound d to a new board object: a getmove call in flight
\* keeps the object it was given.
Detached(ths) == [s \in Slots |-> [ths[s] EXCEPT !.same = FALSE]]

\* The main thread pushed a move onto the board object, which is now b: a
\* getmove call in flight on that object may answer for b.
Pushed(ths, b) ==
    [s \in Slots |-> IF ths[s].same
                     THEN [ths[s] EXCEPT !.cands = @ \cup GetMoveResults(b)]
                     ELSE ths[s]]

\* for mo in mm: d.push_uci(mo); stops at the first illegal move
RECURSIVE PushAll(_, _)
PushAll(b, mm) ==
    IF mm = <<>> THEN [board |-> b, ok |-> TRUE]
    ELSE IF Head(mm) \in LegalMoves(b) THEN PushAll(Push(b, Head(mm)), Tail(mm))
    ELSE [board |-> b, ok |-> FALSE]

\* The main loop reads the next line.
Read(line) ==
    /\ mainpc = "read"
    /\ IF stdin.open
       THEN /\ nlines < MaxLines
            /\ UNCHANGED stdin
       ELSE /\ stdin.pos < Len(stdin.script)
            /\ line = stdin.script[stdin.pos + 1]
            /\ stdin' = [stdin EXCEPT !.pos = @ + 1]
    /\ nlines' = nlines + 1
    /\ l' = line
    /\ quiet' = (line.kind \in {"stop", "force", "?"} /\ NoSearch)

\* ----------------------------------------------------------- main: handlers
\* l == 'xboard'
Xboard ==
    /\ Read(Plain("xboard"))
    /\ is_uci' = FALSE
    /\ Emit(<< <<"feature", nm>> >>)
    /\ UNCHANGED <<nm, d, search_thread, stop_flag, last_result, MAXPLIES,
                   threads, mainpc, ncalls, go_answers>>

\* l == 'quit': sys.exit(0); the daemon threads end with the process
Quit ==
    /\ Read(Plain("quit"))
    /\ mainpc' = "exited"
    /\ Silent
    /\ UNCHANGED <<nm, is_uci, d, search_thread, stop_flag, last_result,
                   MAXPLIES, threads, ncalls, go_answers>>

\* l == 'new' and l == 'ucinewgame': newgame()
NewGame(kind) ==
    /\ Read(Plain(kind))
    /\ d' = StartBoard
    /\ threads' = Detached(threads)
    /\ Silent
    /\ UNCHANGED <<nm, is_uci, search_thread, stop_flag, last_result,
                   MAXPLIES, mainpc, ncalls, go_answers>>

New == NewGame("new")

UciNewGame == NewGame("ucinewgame")

\* The option lines of the uci branch carry the option's name.
OptionLines(n) ==
    IF n = "Newt"
    THEN << <<"option", "depth">>, <<"option", "qplies">>, <<"option", "pstab">>,
            <<"option", "maxnodes">>, <<"option", "usebook">>,
            <<"option", "matetest">>, <<"option", "UCI_Chess960">> >>
    ELSE << <<"option", "maxplies">>, <<"option", "qplies">>, <<"option", "pstab">>,
            <<"option", "matetest">>, <<"option", "MoveError">>,
            <<"option", "BlunderError">>, <<"option", "BlunderPercent">>,
            <<"option", "EasyLearn">>, <<"option", "EasyLambda">>,
            <<"option", "PlayerAdvantage">>, <<"option", "UCI_Chess960">> >>

\* l == 'uci'
Uci ==
    /\ Read(Plain("uci"))
    /\ is_uci' = TRUE
    /\ Emit(<< <<"id name", nm>>, <<"id author">> >> \o OptionLines(nm)
            \o << <<"uciok">> >>)
    /\ UNCHANGED <<nm, d, search_thread, stop_flag, last_result, MAXPLIES,
                   threads, mainpc, ncalls, go_answers>>

\* 'position startpos moves' in l
PositionStartpos ==
    \E line \in PositionLines :
        LET res == PushAll(StartBoard, line.moves)
        IN  /\ Read(line)
            /\ d' = res.board
            /\ threads' = Detached(threads)
            /\ mainpc' = IF res.ok THEN "read" ELSE "crashed"
            /\ Silent
            /\ UNCHANGED <<nm, is_uci, search_thread, stop_flag, last_result,
                           MAXPLIES, ncalls, go_answers>>

\* l == 'isready'
IsReady ==
    /\ Read(Plain("isready"))
    /\ d' = EnsureBoard(d)
    /\ Emit(<< <<"readyok">> >>)
    /\ UNCHANGED <<nm, is_uci, search_thread, stop_flag, last_result, MAXPLIES,
                   threads, mainpc, ncalls, go_answers>>

\* The slot a new thread object takes.
NewSlot == CHOOSE s \in Slots :
              /\ ~Alive(threads[s])
              /\ \A q \in Slots : ~Alive(threads[q]) => s <= q

\* threading.Thread(target=_think_loop, args=(depth,)), started
Spawned(depth) ==
    [FreeThread EXCEPT !.pc = "init",
                       !.max_d = IF depth = -1 THEN DepthCeiling ELSE depth]

\* The engines for which the go branch calls start_search.
StartsSearch(n) == n = "Newt"

\* l[:2] == 'go': the board is created if missing; for Newt set_newt_time
\* stores the time tokens in the engine module (wtime, btime, movestogo,
\* movetime, MAXNODES: attributes this file never reads, not part of the
\* state here) and start_search clears stop_flag and last_result and starts
\* a thread.
Go ==
    \E line \in GoLines :
        /\ Read(line)
        /\ d' = GoBoard(d)
        /\ go_answers' = 0
        /\ IF StartsSearch(nm)
           THEN /\ \E s \in Slots : ~Alive(threads[s])
                /\ stop_flag' = FALSE
                /\ last_result' = NoResult
                /\ search_thread' = NewSlot
                /\ threads' = [IF d' = d THEN threads ELSE Detached(threads)
                                 EXCEPT ![NewSlot] = Spawned(line.depth)]
           ELSE /\ threads' = IF d' = d THEN threads ELSE Detached(threads)
                /\ UNCHANGED <<stop_flag, last_result, search_thread>>
        /\ Silent
        /\ UNCHANGED <<nm, is_uci, MAXPLIES, mainpc, ncalls>>

\* l == 'stop', 'force', '?': stop_search_and_output() up to the join
StopBegin ==
    \E kind \in {"stop", "force", "?"} :
        /\ Read(Plain(kind))
        /\ stop_flag' = TRUE
        /\ mainpc' = "join"
        /\ Silent
        /\ UNCHANGED <<nm, is_uci, d, search_thread, last_result, MAXPLIES,
                       threads, ncalls, go_answers>>

\* A terminating line answers the latest go if it carries a computed move or
\* if that go has no answer yet.
Answered(n, m) == IF n >= 0 /\ (m # NoResult \/ n = 0) THEN n + 1 ELSE n

\* stop_search_and_output() from the join on: the join returns (the thread
\* ended, or the 0.2 s ran out), search_thread is dropped, and the stored
\* move goes through move(), or the null move is printed.  move() pushes
\* the move, which raises if the board does not allow it.
JoinReturn ==
    /\ mainpc = "join"
    /\ search_thread' = 0
    /\ IF last_result # NoResult
       THEN IF last_result \in LegalMoves(d)
            THEN /\ d' = MoveBoard(d, last_result)
                 /\ threads' = Pushed(threads, d')
                 /\ out' = Append(out, MoveLine(is_uci, last_result))
                 /\ go_answers' = Answered(go_answers, last_result)
                 /\ mainpc' = "read"
            ELSE /\ mainpc' = "crashed"
                 /\ UNCHANGED <<d, threads, out, go_answers>>
       ELSE /\ out' = Append(out, MoveLine(is_uci, "0000"))
            /\ go_answers' = Answered(go_answers, NoResult)
            /\ mainpc' = "read"
            /\ UNCHANGED <<d, threads>>
    /\ quiet' = FALSE
    /\ UNCHANGED <<nm, is_uci, stop_flag, last_result, MAXPLIES,
                   stdin, l, nlines, ncalls>>

\* The else branch on a coordinate move: the user's move is pushed, the
\* engine is asked for its reply in the main thread, and the reply goes
\* through move().  push_uci raises on an illegal move, and getmove may raise.
MoveToken ==
    \E line \in MoveLines :
        /\ Read(line)
        /\ UNCHANGED <<nm, is_uci, search_thread, stop_flag, last_result,
                       MAXPLIES, ncalls, go_answers>>
        /\ IF line.tok \in LegalMoves(EnsureBoard(d))
           THEN LET b == Push(EnsureBoard(d), line.tok)
                    ths == Pushed(threads, b)
                IN  \/ \E r \in GetMoveResults(b) :
                          /\ d' = IF r = NoResult THEN b ELSE MoveBoard(b, r)
                          /\ threads' = Pushed(ths, d')
                          /\ out' = IF r = NoResult THEN out
                                    ELSE Append(out, MoveLine(is_uci, r))
                          /\ UNCHANGED mainpc
                    \/ /\ d' = b
                       /\ threads' = ths
                       /\ mainpc' = "crashed"
                       /\ Silent
           ELSE /\ d' = EnsureBoard(d)
                /\ mainpc' = "crashed"
                /\ Silent
                /\ UNCHANGED threads

\* ------------------------------------------------- background: _think_loop
ThreadVarsUnchanged ==
    UNCHANGED <<nm, is_uci, search_thread, stop_flag, mainpc, out, stdin, l,
                nlines, go_answers, quiet>>

\* The thread starts: max_d is set, and "if not d: newgame()".
ThinkInit(s) ==
    /\ Running
    /\ threads[s].pc = "init"
    /\ d' = EnsureBoard(d)
    /\ threads' = [threads EXCEPT ![s].pc = "loop", ![s].dd = 1]
    /\ UNCHANGED <<last_result, MAXPLIES, ncalls>>
    /\ ThreadVarsUnchanged

\* Top of the for loop: the range is exhausted and the function returns, or
\* stop_flag is seen and it returns, or p.MAXPLIES is set and getmove is
\* called on the board d names at that moment.
ThinkLoop(s) ==
    /\ Running
    /\ threads[s].pc = "loop"
    /\ IF threads[s].dd > threads[s].max_d
       THEN /\ threads' = [threads EXCEPT ![s] = Ended("completed")]
            /\ UNCHANGED <<MAXPLIES, ncalls>>
       ELSE IF stop_flag
       THEN /\ threads' = [threads EXCEPT ![s] = Ended("cancelled")]
            /\ UNCHANGED <<MAXPLIES, ncalls>>
       ELSE /\ ncalls < MaxCalls
            /\ ncalls' = ncalls + 1
            /\ MAXPLIES' = threads[s].dd
            /\ threads' = [threads EXCEPT ![s].pc = "call",
                                          ![s].cands = GetMoveResults(d),
                                          ![s].same = TRUE]
    /\ UNCHANGED <<d, last_result>>
    /\ ThreadVarsUnchanged

\* getmove returns (t_res, r_res); "if r_res: last_result = (t_res, r_res)";
\* "if stop_flag: return"; else the next depth.  r_res is local to the
\* thread, so the return and the store are one step.
ThinkReturn(s) ==
    /\ Running
    /\ threads[s].pc = "call"
    /\ \E r_res \in threads[s].cands :
          last_result' = IF r_res # NoResult THEN r_res ELSE last_result
    /\ threads' = IF stop_flag
                  THEN [threads EXCEPT ![s] = Ended("cancelled")]
                  ELSE [threads EXCEPT ![s].pc = "loop", ![s].dd = @ + 1,
                                       ![s].cands = {}, ![s].same = FALSE]
    /\ UNCHANGED <<d, MAXPLIES, ncalls>>
    /\ ThreadVarsUnchanged

\* getmove raises: nothing in _think_loop catches it, the thread dies
ThinkRaise(s) ==
    /\ Running
    /\ threads[s].pc = "call"
    /\ threads' = [threads EXCEPT ![s] = Ended("dead")]
    /\ UNCHANGED <<d, last_result, MAXPLIES, ncalls>>
    /\ ThreadVarsUnchanged

Think ==
    \E s \in Slots :
        \/ ThinkInit(s)
        \/ ThinkLoop(s)
        \/ ThinkReturn(s)
        \/ ThinkRaise(s)

\* ----------------------------------------------------------- specification
Next ==
    \/ Xboard
    \/ Quit
    \/ New
    \/ Uci
    \/ UciNewGame
    \/ PositionStartpos
    \/ IsReady
    \/ Go
    \/ StopBegin
    \/ JoinReturn
    \/ MoveToken
    \/ Think

Spec == Init /\ [][Next]_vars

\* ------------------------------------------------- a session from a script
\* input() at the end of a script whose pipe is closed: EOFError, which the
\* loop does not catch (it catches KeyboardInterrupt only).
Eof ==
    /\ mainpc = "read"
    /\ ~stdin.open
    /\ stdin.pos = Len(stdin.script)
    /\ mainpc' = "crashed"
    /\ UNCHANGED <<nm, is_uci, d, search_thread, stop_flag, last_result,
                   MAXPLIES, threads, out, stdin, l, nlines, ncalls,
                   go_answers, quiet>>

\* The sessions "uci", "isready", "position startpos moves ...", "go ...".
Sessions ==
    {<<Plain("uci"), Plain("isready"), pos, go>> :
        pos \in PositionLines, go \in GoLines}

InitSession == Started /\ stdin \in {Scripted(script) : script \in Sessions}

NextSession ==
    \/ Uci
    \/ IsReady
    \/ PositionStartpos
    \/ Go
    \/ Think
    \/ Eof

SpecSession == InitSession /\ [][NextSession]_vars

\* ------------------------------------------------------- a game of tokens
\* Move tokens in one script after "new".
MaxTokens == 3

RECURSIVE TokenSeqs(_)
TokenSeqs(n) ==
    IF n = 0 THEN {<<>>}
    ELSE LET shorter == TokenSeqs(n - 1)
         IN  shorter \cup {Append(q, Line("move", <<>>, -1, "none", m)) :
                             q \in shorter, m \in AllMoves}

Games == {<<Plain("new")>> \o toks : toks \in TokenSeqs(MaxTokens) \ {<<>>}}

InitGame == Started /\ stdin \in {Scripted(script) : script \in Games}

NextGame ==
    \/ New
    \/ MoveToken

SpecGame == InitGame /\ [][NextGame]_vars

\* ---------------------------------------- set-up lines and the other lines
\* fromfen(fen): the board afterwards, and what it prints.
FromFen(b, text) == IF WellFormed(text) THEN BoardOfFen(text) ELSE b

FromFenOutput(text) == IF WellFormed(text) THEN <<>> ELSE << <<"Bad FEN">> >>

\* A "position fen" line: the FEN fields on the line (none, the four of a
\* Shredder FEN, or all six), whether the word "moves" follows, and the moves
\* after it.
FenLine(fen, kw, moves) ==
    [kind |-> "position fen", fen |-> fen, kw |-> kw, moves |-> moves]

FenLines ==
    {FenLine(<<head, "0 1">>, mm # <<>>, mm) :
        head \in {StartHead, AfterE4Head, AfterE4EpHead, BadHead},
        mm \in {<<>>, <<"e7e5">>, <<"d2d4">>}}
    \cup {FenLine(<<AfterE4Head>>, TRUE, <<"e7e5">>),
          FenLine(<<AfterE4Head>>, FALSE, <<>>),
          FenLine(<<>>, FALSE, <<>>)}

\* len(l.split())
NTokens(line) ==
    2 + (IF Len(line.fen) = 2 THEN 6 ELSE IF Len(line.fen) = 1 THEN 4 ELSE 0)
      + (IF line.kw THEN 1 + Len(line.moves) ELSE 0)

\* ff: l.split()[2:8] joined, after a Shredder FEN (l.split()[6] == 'moves')
\* was given the counters 0 and 1.
FenOfLine(line) ==
    IF Len(line.fen) = 1 /\ line.kw THEN Append(line.fen, "0 1") ELSE line.fen

\* A test that never finds the game continued.
NeverContinues(old, ff) == FALSE

\* old.fen() == ff
ContinuesGame(old, ff) == BoardFen(old) = ff

\* The in-flight getmove calls after a run of pushes onto the board object.
RECURSIVE PushedAll(_, _, _)
PushedAll(ths, b, mm) ==
    IF mm = <<>> \/ Head(mm) \notin LegalMoves(b) THEN ths
    ELSE PushedAll(Pushed(ths, Push(b, Head(mm))), Push(b, Head(mm)), Tail(mm))

\* 'position fen' in l.  l.split()[6] raises when the line has fewer than
\* seven tokens.  fromfen rebinds d unless the text is bad; the moves go onto
\* the old board when its FEN is the text given and d is rebound to a copy of
\* it, and onto d otherwise, which after a bad FEN is the board as it was (or
\* '', on which push_uci raises).
PositionFen ==
    \E line \in FenLines :
        /\ Read(line)
        /\ UNCHANGED <<nm, is_uci, search_thread, stop_flag, last_result,
                       MAXPLIES, ncalls, go_answers>>
        /\ IF NTokens(line) <= 6
           THEN /\ mainpc' = "crashed"
                /\ Silent
                /\ UNCHANGED <<d, threads>>
           ELSE LET ff == FenOfLine(line)
                    mm == IF line.kw THEN line.moves ELSE <<>>
                    fresh == FromFen(d, ff)
                    merge == d # NoBoard /\ ContinuesGame(d, ff)
                    res == PushAll(IF merge THEN d ELSE fresh, mm)
                IN  /\ d' = IF merge /\ ~res.ok THEN fresh ELSE res.board
                    /\ threads' = IF merge \/ WellFormed(ff)
                                  THEN Detached(threads)
                                  ELSE PushedAll(threads, d, mm)
                    /\ mainpc' = IF res.ok THEN "read" ELSE "crashed"
                    /\ Emit(FromFenOutput(ff))

\* A "setboard" line and the text after its first blank, if there is one.
SetBoardLine(fen) == [kind |-> "setboard", fen |-> fen]

SetBoardLines ==
    {SetBoardLine(<<>>)}
    \cup {SetBoardLine(<<head, "0 1">>) :
            head \in {StartHead, PromotionHead, BadHead}}

\* 'setboard' in l: l.split(' ', 1)[1] raises on a line without a blank.
SetBoard ==
    \E line \in SetBoardLines :
        /\ Read(line)
        /\ UNCHANGED <<nm, is_uci, search_thread, stop_flag, last_result,
                       MAXPLIES, ncalls, go_answers>>
        /\ IF line.fen = <<>>
           THEN /\ mainpc' = "crashed"
                /\ Silent
                /\ UNCHANGED <<d, threads>>
           ELSE /\ d' = FromFen(d, line.fen)
                /\ threads' = IF WellFormed(line.fen) THEN Detached(threads)
                              ELSE threads
                /\ Emit(FromFenOutput(line.fen))
                /\ UNCHANGED mainpc

\* A "setoption name maxplies value" line and the tokens after "value".
OptionLine(value) ==
    [kind |-> "setoption name maxplies value", value |-> value]

OptionValueLines == {OptionLine(v) : v \in {<<>>, <<"2">>, <<"deep">>}}

\* int(x) of a token that is a number
IntOf(x) == CASE x = "1" -> 1 [] x = "2" -> 2 [] x = "3" -> 3

IsInt(x) == x \in {"1", "2", "3"}

\* 'setoption name maxplies value' in l: l.split()[4] raises without a
\* value, int() on a value that is no number.
SetOption ==
    \E line \in OptionValueLines :
        /\ Read(line)
        /\ UNCHANGED <<nm, is_uci, d, search_thread, stop_flag, last_result,
                       threads, ncalls, go_answers>>
        /\ IF line.value # <<>> /\ IsInt(line.value[1])
           THEN /\ MAXPLIES' = IntOf(line.value[1])
                /\ Emit(<< <<"# maxplies", line.value[1]>> >>)
                /\ UNCHANGED mainpc
           ELSE /\ mainpc' = "crashed"
                /\ Silent
                /\ UNCHANGED MAXPLIES

\* A line that matches none of the commands, as its characters.
TextLine(chars) == [kind |-> "text", chars |-> chars]

TextLines ==
    {TextLine(c) :
        c \in {<<"x">>, <<"h", "i">>,
               Chars("e2e4"), Chars("e7e5"), Chars("e7e8n"),
               <<"e", "7", "e", "8", "=", "n">>,
               Chars("e2e4") \o <<" ", "x">>,
               Chars("e2e4") \o <<" ", "n", "o", "w">>}}

\* abc, nn
Abc == {"a", "b", "c", "d", "e", "f", "g", "h"}
Nn == {"1", "2", "3", "4", "5", "6", "7", "8"}

\* l[0] in abc and l[2] in abc and l[1] in nn and l[3] in nn, evaluated left
\* to right: an index past the end of the line raises.
TestRaises(c) ==
    /\ c[1] \in Abc
    /\ \/ Len(c) < 3
       \/ c[3] \in Abc /\ c[2] \in Nn /\ Len(c) < 4

LooksLikeMove(c) ==
    Len(c) >= 4 /\ c[1] \in Abc /\ c[3] \in Abc /\ c[2] \in Nn /\ c[4] \in Nn

\* A repair that keeps the piece letter of a six-character line.
RepairedKeepsPiece(c) ==
    IF Len(c) = 6 THEN SubSeq(c, 1, 4) \o <<c[6]>> ELSE c

\* if len(l) == 6: l = l[:4] + 'q'
Repaired(c) == IF Len(c) = 6 THEN SubSeq(c, 1, 4) \o <<"q">> ELSE c

\* d.push_uci(text): the legal moves the text denotes, none if it raises.
MovesOfText(b, c) == {m \in LegalMoves(b) : Chars(m) = c}

\* The else branch on any line: the board is created if missing, the test
\* for a coordinate move is made, a six-character line is repaired, the
\* move is pushed and the engine's reply goes through move().
ElseBranch ==
    \E line \in TextLines :
        LET b0 == EnsureBoard(d)
            c == line.chars
            ms == MovesOfText(b0, Repaired(c))
        IN  /\ Read(line)
            /\ UNCHANGED <<nm, is_uci, search_thread, stop_flag, last_result,
                           MAXPLIES, ncalls, go_answers>>
            /\ IF TestRaises(c) \/ (LooksLikeMove(c) /\ ms = {})
               THEN /\ d' = b0
                    /\ mainpc' = "crashed"
                    /\ Silent
                    /\ UNCHANGED threads
               ELSE IF ~LooksLikeMove(c)
               THEN /\ d' = b0
                    /\ Silent
                    /\ UNCHANGED <<mainpc, threads>>
               ELSE \E m \in ms :
                      LET b == Push(b0, m)
                          ths == Pushed(threads, b)
                      IN  \/ \E r \in GetMoveResults(b) :
                                /\ d' = IF r = NoResult THEN b
                                        ELSE MoveBoard(b, r)
                                /\ threads' = Pushed(ths, d')
                                /\ out' = IF r = NoResult THEN out
                                          ELSE Append(out, MoveLine(is_uci, r))
                                /\ UNCHANGED mainpc
                          \/ /\ d' = b
                             /\ threads' = ths
                             /\ mainpc' = "crashed"
                             /\ Silent

\* The main loop fed set-up lines, option lines and other lines.
NextLines ==
    \/ Quit
    \/ New
    \/ PositionStartpos
    \/ PositionFen
    \/ SetBoard
    \/ SetOption
    \/ ElseBranch

SpecLines == Init /\ [][NextLines]_vars

\* ------------------------------------------------------------ vocabulary
\* The step is one of the main thread: it read a line, or it left the join
\* or the input call.
MainStep == nlines' # nlines \/ mainpc' # mainpc

\* The step reads a line of the given kinds.
Reads(kinds) == nlines' # nlines /\ l'.kind \in kinds

\* The step starts a background thread.
Spawns == \E s \in Slots : threads'[s].pc = "init" /\ threads[s].pc # "init"

\* The step prints exactly one line, a terminating response carrying m.
PrintsAnswer(m) ==
    /\ Len(out') = Len(out) + 1
    /\ SubSeq(out', 1, Len(out)) = out
    /\ IsTerminating(out'[Len(out')])
    /\ out'[Len(out')][2] = m

\* The step prints exactly one line, a terminating response.
PrintsOneAnswer == \E m \in AllMoves \cup {"0000"} : PrintsAnswer(m)

AliveThreads == {s \in Slots : Alive(threads[s])}

\* The terminating responses in the output.
Answers == {i \in 1..Len(out) : IsTerminating(out[i])}

\* Where a line with the given first word is in the output, 0 if nowhere.
First(w) ==
    IF \E i \in 1..Len(out) : out[i][1] = w
    THEN CHOOSE i \in 1..Len(out) :
            out[i][1] = w /\ \A j \in 1..(i - 1) : out[j][1] # w
    ELSE 0

\* ------------------------------------------------------------------ claims
\* C1: every search request started by a go gets exactly one terminating
\* response: never two, and once the main loop is back at its input with no
\* search thread running, not zero.
C1_ExactlyOneResponse ==
    go_answers >= 0 =>
        /\ go_answers <= 1
        /\ (mainpc = "read" /\ AliveThreads = {}) => go_answers = 1

\* C2: once the session uci, isready, position startpos moves e2e4,
\* go depth 1 has been read and no search thread is running, the output has
\* an id name line, uciok, readyok and then exactly one bestmove line, in
\* this order.
C2_SessionAnswered ==
    (/\ ~stdin.open
     /\ stdin.script = <<Plain("uci"), Plain("isready"),
                         Line("position startpos moves", <<"e2e4">>, -1, "none", ""),
                         Line("go", <<>>, 1, "none", "")>>
     /\ stdin.pos = 4
     /\ AliveThreads = {})
    => /\ Cardinality(Answers) = 1
       /\ out[Len(out)][1] = "bestmove"
       /\ out[Len(out)][2] \in LegalMoves(PushAll(StartBoard, <<"e2e4">>).board)
       /\ 0 < First("id name")
       /\ First("id name") < First("uciok")
       /\ First("uciok") < First("readyok")
       /\ First("readyok") < First("bestmove")

\* C3: the step that reads a go line with a depth and no time-control token
\* prints one terminating response and starts no background thread.
C3_DepthOnlyIsSynchronous ==
    [][(Reads({"go"}) /\ l'.depth # -1 /\ l'.tc = "none")
         => (PrintsOneAnswer /\ ~Spawns)]_vars

\* C4: the step that reads a go line with movetime, wtime or btime starts a
\* background thread, whatever the engine.
C4_TimedGoSpawns ==
    [][(Reads({"go"}) /\ l'.tc \in {"movetime", "wtime", "btime"}) => Spawns]_vars

\* C5: at most one background search thread is alive.
C5_AtMostOneThread == Cardinality(AliveThreads) <= 1

\* C6: the step in which a thread leaves its loop with every depth done and
\* stop_flag not set prints last_result's move, or the null move if there is
\* none.
C6_CompletionAnswers ==
    [][(/\ ~stop_flag
        /\ \E s \in Slots : /\ threads'[s].pc = "completed"
                             /\ threads[s].pc # "completed")
         => PrintsAnswer(IF last_result = NoResult THEN "0000" ELSE last_result)]_vars

\* C7: a cancellation begun with no search running prints the null move,
\* raises nothing and leaves the board as it is.
C7_QuietCancelIsNullMove ==
    [][(mainpc = "join" /\ quiet /\ mainpc' # "join")
         => (mainpc' = "read" /\ d' = d /\ PrintsAnswer("0000"))]_vars

\* C8: after stop, force, ?, quit, new or ucinewgame is read while the
\* thread of the current search is running, stop_flag is set or the process
\* has ended.
C8_CancelClassStops ==
    [][(/\ Reads({"stop", "force", "?", "quit", "new", "ucinewgame"})
        /\ search_thread # 0
        /\ Alive(threads[search_thread]))
         => (stop_flag' \/ mainpc' = "exited")]_vars

\* C9: only steps of the main thread change the board; a step of a
\* background thread changes nothing but last_result, p.MAXPLIES and the
\* thread's own position.
C9_BoardIsForegroundOnly ==
    [][~MainStep => UNCHANGED <<d, is_uci, stop_flag, search_thread, out, l,
                                nm, stdin>>]_vars

\* A background thread has gone through an iteration and stored a result
\* while the board exists.
C9_Witness ==
    \E s \in Slots : /\ threads[s].pc = "loop"
                     /\ threads[s].dd = 2
                     /\ last_result # NoResult
                     /\ d # NoBoard



\* The move tokens read so far in a game script.
Toks == [i \in 1..(stdin.pos - 1) |-> stdin.script[i + 1].tok]

\* The moves printed so far.
Replies == [i \in 1..Len(out) |-> out[i][2]]

\* A game script of "new" and at least one token has been handled so far
\* without an exception.
GameFed ==
    /\ ~stdin.open
    /\ stdin.pos >= 2
    /\ stdin.script[1] = Plain("new")
    /\ mainpc = "read"

\* The tokens with the reply to each, if any, right after it.
RECURSIVE Interleave(_, _)
Interleave(toks, rs) ==
    IF toks = <<>> THEN <<>>
    ELSE <<Head(toks)>>
         \o (IF Head(rs) = NoResult THEN <<>> ELSE <<Head(rs)>>)
         \o Interleave(Tail(toks), Tail(rs))

IsMove(x) == x # NoResult

\* C10 as stated: after the N-th token of a legal move list the board is the
\* board of "position startpos moves m1 ... mN".
C10_TokensEqualPosition ==
    (GameFed /\ PushAll(StartBoard, Toks).ok)
    => d = PushAll(StartBoard, Toks).board

\* C10 as amended: after the N-th token the board is the board of "position
\* startpos moves" with the tokens and, right after each token, the reply
\* the engine printed for it.
C10_TokensAndReplies ==
    GameFed =>
        \E rs \in [1..Len(Toks) -> AllMoves \cup {NoResult}] :
            /\ SelectSeq(rs, IsMove) = Replies
            /\ PushAll(StartBoard, Interleave(Toks, rs)).ok
            /\ d = PushAll(StartBoard, Interleave(Toks, rs)).board

\* Two tokens have been handled and the engine has replied at least once.
C10_Witness == GameFed /\ stdin.pos = 3 /\ Len(out) >= 1

\* The moves a "position fen" line carries.
TrailingMoves(line) == IF line.kw THEN line.moves ELSE <<>>

\* C11: a "position fen <F> moves ..." line whose F is the FEN of the
\* current board keeps that board and its move history and appends the
\* trailing moves to it; when F is another well-formed FEN the board becomes
\* the position F with only the trailing moves in its history.
C11_ContinuationMerges ==
    [][(/\ Reads({"position fen"})
        /\ mainpc' = "read"
        /\ d # NoBoard
        /\ WellFormed(FenOfLine(l')))
       => IF FenOfLine(l') = BoardFen(d)
          THEN d' = [fen |-> d.fen, hist |-> d.hist \o TrailingMoves(l')]
          ELSE d' = [fen |-> FenOfLine(l'), hist |-> TrailingMoves(l')]]_vars

\* A game opened with "position startpos moves e2e4" was continued by
\* "position fen <FEN after e2e4> moves e7e5".
C11_Witness ==
    /\ mainpc = "read"
    /\ l = FenLine(<<AfterE4Head, "0 1">>, TRUE, <<"e7e5">>)
    /\ d = [fen |-> StartBoard.fen, hist |-> <<"e2e4", "e7e5">>]

\* The FEN text a set-up line hands to fromfen.
FenGiven(line) ==
    IF line.kind = "setboard" THEN line.fen ELSE FenOfLine(line)

\* The line reaches fromfen: it has the fields its branch indexes.
ReachesFromFen(line) ==
    IF line.kind = "setboard" THEN line.fen # <<>> ELSE NTokens(line) > 6

\* C12: a malformed FEN in "setboard" or "position fen", with or without a
\* trailing move list, is reported by one printed line, the board stays
\* exactly as it was and the main loop goes on.
C12_BadFenLeavesBoard ==
    [][(/\ Reads({"setboard", "position fen"})
        /\ ReachesFromFen(l')
        /\ ~WellFormed(FenGiven(l')))
       => /\ d' = d
          /\ mainpc' = "read"
          /\ Len(out') = Len(out) + 1]_vars

\* C13: whatever line is read, other than "quit", the main loop is still
\* running after it (at its input, or inside a cancellation), and a line
\* that matches no command and is no coordinate move changes neither the
\* output nor the board.
C13_OnlyQuitEndsLoop ==
    [][(nlines' # nlines /\ l'.kind # "quit")
       => /\ mainpc' \in {"read", "join"}
          /\ (l'.kind = "text" /\ ~LooksLikeMove(l'.chars))
                => (out' = out /\ d' = d)]_vars

\* Thread s leaves its engine call in this step.
CallEnds(s) == threads[s].pc = "call" /\ threads'[s].pc # "call"

\* C14: however an engine call of the background loop ends, by a result, by
\* no result or by raising, the thread goes on to the next depth, or returns
\* because stop_flag is set; a call that raises stores nothing and does not
\* end the thread.
C14_FailedIterationContinues ==
    [][\A s \in Slots :
          CallEnds(s)
          => /\ IF stop_flag
                THEN threads'[s].pc = "cancelled"
                ELSE /\ threads'[s].pc = "loop"
                     /\ threads'[s].dd = threads[s].dd + 1
             /\ last_result' \in threads[s].cands \cup {last_result}]_vars

\* C15: an engine call that returns after stop_flag was set stores nothing:
\* last_result is as it was before the call returned.
C15_NoStoreAfterCancel ==
    [][\A s \in Slots :
          (CallEnds(s) /\ stop_flag) => last_result' = last_result]_vars

\* The response a cancellation owes: the stored move, or the null move.
StoredOrNull == IF last_result # NoResult THEN last_result ELSE "0000"

\* C16: a cancellation ("stop", "force", "?") that is waiting in its join
\* always ends by printing its response, the stored move if there is one and
\* the null move otherwise, and by returning to the input loop, whatever the
\* background thread is doing.
C16_CancellationResponds ==
    [][(mainpc = "join" /\ mainpc' # "join")
       => (mainpc' = "read" /\ PrintsAnswer(StoredOrNull))]_vars

\* The mode-switch lines answered in the output before line i: "xboard" is
\* answered by a feature line, "uci" by a block that ends with uciok.
SwitchesBefore(i) == {j \in 1..(i - 1) : out[j][1] \in {"feature", "uciok"}}

\* The protocol mode when line i was printed is XBoard: the latest mode
\* switch before it was "xboard".
XBoardModeAt(i) ==
    /\ SwitchesBefore(i) # {}
    /\ LET last == CHOOSE j \in SwitchesBefore(i) :
                      \A k \in SwitchesBefore(i) : k <= j
       IN  out[last][1] = "feature"

\* C17: every terminating response, a real move or 0000, from a
\* cancellation or from the reply to a move token, starts with "move" when
\* the latest mode switch before it was "xboard", and with "bestmove" when
\* it was "uci" or there was none.
C17_PrefixFollowsMode ==
    \A i \in Answers :
        out[i][1] = IF XBoardModeAt(i) THEN "move" ELSE "bestmove"

\* In XBoard mode a move token was answered with a real move and a
\* cancellation with the null move.
C17_Witness ==
    \E i, j \in Answers :
        /\ XBoardModeAt(i) /\ out[i][2] \in AllMoves
        /\ XBoardModeAt(j) /\ out[j][2] = "0000"

\* C18: when the else branch applies a line that starts with a coordinate
\* move, the move pushed onto the board is the line's first four characters
\* followed by q if the line has six characters, and the whole line as
\* written if it has any other length.
C18_SixCharsPromoteToQueen ==
    [][(Reads({"text"}) /\ LooksLikeMove(l'.chars) /\ mainpc' = "read")
       => LET n == Len(EnsureBoard(d).hist)
          IN  /\ d'.fen = EnsureBoard(d).fen
              /\ Len(d'.hist) > n
              /\ SubSeq(d'.hist, 1, n) = EnsureBoard(d).hist
              /\ Chars(d'.hist[n + 1]) =
                    IF Len(l'.chars) = 6
                    THEN SubSeq(l'.chars, 1, 4) \o <<"q">>
                    ELSE l'.chars]_vars

\* On a board with a pawn on e7 the line "e7e8=n" was applied as e7e8q.
C18_Witness ==
    /\ mainpc = "read"
    /\ l = TextLine(<<"e", "7", "e", "8", "=", "n">>)
    /\ d.fen = <<PromotionHead, "0 1">>
    /\ Len(d.hist) >= 1
    /\ d.hist[1] = "e7e8q"

\* Thread s was started by a search before the one the main thread holds.
EarlierSearch(s) == search_thread # 0 /\ s # search_thread

\* C19: a thread of an earlier search neither stores a result nor starts
\* another engine call once a later start_search has run: what last_result
\* holds was computed by the thread of the latest "go".
C19_EarlierSearchIsSilent ==
    [][\A s \in Slots :
          EarlierSearch(s)
          => /\ CallEnds(s) => last_result' = last_result
             /\ ~(threads[s].pc = "loop" /\ threads'[s].pc = "call")]_vars

\* C20: when a cancellation sends a stored move through move(), the move is
\* legal on the board it is pushed onto, the board being the position the
\* move was computed on: the response is printed and the move is applied.
C20_EmittedMoveIsLegal ==
    [][(mainpc = "join" /\ mainpc' # "join" /\ last_result # NoResult)
       => /\ last_result \in LegalMoves(d)
          /\ d' = Push(d, last_result)
          /\ PrintsAnswer(last_result)]_vars

====
